---- MODULE Spec2Model ----
\* A model of the NDK session object (src/ndk/src/ndk/index.ts): the active-user
\* bootstrap, subscribe, fetchEvent and fetchEvents.
EXTENDS Integers, Sequences, FiniteSets, TLC

\* ------------------------------------------------------------------ bounds
MaxActivations == 2       \* bootstrap rounds created in one behaviour
MaxSignals == 2           \* relay:connect signals emitted in one behaviour

None == 0                 \* undefined / null

\* The NDKUser objects the caller may assign, and the public key of each:
\* objects 1 and 2 are two objects of the same identity, object 3 is another.
UserObjs == {1, 2, 3}
Pubkey(o) == (o + 1) \div 2

Pools == {"main", "outbox"}
MainUrls == {1, 2}        \* relay urls of the main pool; 1 is the explicit relay
OutboxUrls == {3}         \* opts.outboxRelayUrls

EmptyMap == [x \in {} |-> "p"]   \* new Map()
MapSet(m, k, v) == [x \in (DOMAIN m) \cup {k} |-> IF x = k THEN v ELSE m[x]]

\* A mute-list event is the sequence of its tag items <<tag, target>>.
MuteListOf(pk) ==
    IF pk = 1 THEN << <<"p", "x">> >> ELSE << <<"p", "y">> >>
\* What fetchEvents can resolve with for the user's two mute-list filters: the
\* list event of the user; for the second identity the relays may also hold none.
MuteFetchResults(pk) ==
    IF pk = 1 THEN { << MuteListOf(pk) >> } ELSE { << >>, << MuteListOf(pk) >> }
AllMuteFetchResults == UNION { MuteFetchResults(Pubkey(o)) : o \in UserObjs }
\* What user.relayList() can resolve with: absent (None) or a list of urls.
RelayListResults ==
    { [found |-> FALSE, relays |-> {}], [found |-> TRUE, relays |-> {1, 2}] }

VARIABLES
    opts,          \* the constructor's parameters (opts.mutedIds is not given)
    activeUser,    \* this._activeUser: an NDKUser object or None
    mutedIds,      \* this.mutedIds: Map<id, tag>
    poolRelays,    \* pool.relays of the main and the outbox pool
    connected,     \* pool.connectedRelays of each pool
    listeners,     \* the once("relay:connect") listeners of each pool, in order
    rounds,        \* one record per runUserFunctions closure created
    signalCount,   \* relay:connect signals emitted so far, over both pools
    overlapped,    \* a round was created while an earlier one had not finished
    call,          \* the subscribe / fetchEvent / fetchEvents call of the behaviour
    sub,           \* the NDKSubscription that call created
    handlers,      \* the signals of sub that have a listener registered
    promise,       \* the promise fetchEvent / fetchEvents returned
    events,        \* fetchEvents' map from deduplication key to event
    delivered,     \* every event sub has emitted (as event or event:dup)
    firstEvent,    \* the first event sub has emitted
    temporary,     \* relays registered by pool.useTemporaryRelay
    tracked,       \* the argument of each outboxTracker.trackUsers call, in order
    signer,        \* this._signer: an NDKSigner or None
    resolutions,   \* one record per newSigner.user() call, in order
    asserted       \* assertSigner calls, signerRequired signals, errors thrown

sessionVars == <<opts, activeUser, mutedIds, poolRelays, connected, listeners,
                 rounds, signalCount, overlapped>>

fetchVars == <<call, sub, handlers, promise, events, delivered, firstEvent,
               temporary, tracked>>

signerVars == <<signer, resolutions, asserted>>

vars == <<sessionVars, fetchVars, signerVars>>

\* ---------------------------------------------------------------- helpers
\* this.outboxPool || this.pool
ChosenPool == IF opts.enableOutboxModel THEN "outbox" ELSE "main"

AlwaysConnected(p) == TRUE
\* pool.connectedRelays.length > 0
PoolHasConnected(p) == connected[p] # {}

KeepMutedIds == mutedIds
\* this.mutedIds = new Map()
ResetMutedIds == EmptyMap

UserFunctionsSwapped ==
    (IF opts.autoFetchUserMutelist THEN <<"mute">> ELSE << >>)
    \o (IF opts.autoConnectUserRelays THEN <<"connect">> ELSE << >>)

\* the userFunctions list: each task is pushed only if its flag is set
UserFunctions ==
    (IF opts.autoConnectUserRelays THEN <<"connect">> ELSE << >>)
    \o (IF opts.autoFetchUserMutelist THEN <<"mute">> ELSE << >>)

\* A round is the closure runUserFunctions(user) with its position in the list.
\* idx = 0: not started; 1..Len(fns): awaiting that task; Len(fns)+1: finished.
\* starts counts the calls of runUserFunctions; log lists the task calls and
\* completions; deferred records that the chosen pool had no connected relay
\* when the user was assigned, and signals counts the relay:connect signals
\* that pool has emitted since (for a deferred round); fetched is the map
\* built from this round's own mute-list events; failed records that a task
\* threw and failedAt the number of relay:connect signals emitted before.
NewRound(user, fns) ==
    [user |-> user, fns |-> fns, idx |-> 0, starts |-> 0,
     deferred |-> connected[IF opts.enableOutboxModel THEN "outbox" ELSE "main"] = {},
     signals |-> 0,
     log |-> << >>, fetched |-> EmptyMap, failed |-> FALSE, failedAt |-> 0]

\* Calling a task: its synchronous part runs up to its first await.
Enter(r, i) ==
    IF i <= Len(r.fns)
    THEN [r EXCEPT !.idx = i, !.log = Append(@, <<r.fns[i], "start">>)]
    ELSE [r EXCEPT !.idx = i]

\* runUserFunctions(user): the loop enters its first task, or ends at once.
RunUserFunctions(r) == Enter([r EXCEPT !.starts = @ + 1], 1)

\* A task's promise settles: the loop's await resumes and enters the next task.
Resume(r) ==
    Enter([r EXCEPT !.log = Append(@, <<r.fns[r.idx], "end">>)], r.idx + 1)

FailAndContinue(r, n) ==
    Enter([r EXCEPT !.log = Append(@, <<r.fns[r.idx], "fail">>),
                    !.failed = TRUE, !.failedAt = n], r.idx + 1)
\* The awaited task rejects: `await fn(user)` throws, the loop is left and the
\* promise of runUserFunctions rejects, unhandled.
Fail(r, n) ==
    [r EXCEPT !.log = Append(@, <<r.fns[r.idx], "fail">>),
              !.failed = TRUE, !.failedAt = n]

Running(r) == ~r.failed /\ r.idx >= 1 /\ r.idx <= Len(r.fns)
Finished(r) == r.idx > Len(r.fns)

RECURSIVE SetItems(_, _, _)
\* for (const item of list.items) this.mutedIds.set(item[1], item[0])
SetItems(m, items, i) ==
    IF i > Len(items) THEN m
    ELSE SetItems(MapSet(m, items[i][2], items[i][1]), items, i + 1)

RECURSIVE MergeLists(_, _, _)
\* for (const muteList of muteLists) ...
MergeLists(m, lists, i) ==
    IF i > Len(lists) THEN m
    ELSE MergeLists(SetItems(m, lists[i], 1), lists, i + 1)

\* ------------------------------------------- subscriptions and fetches
MaxDeliveries == 3        \* events the relays deliver to the subscription
MaxEoseRepeats == 1       \* EOSE signals a relay repeats after its first

Relays == {1, 2, 3}       \* relay 3 is not tracked by the main pool

\* The stored events the relays hold: event 1 of an ordinary kind, events 2
\* and 3 two versions of one parameterized-replaceable list (same kind, author
\* and d tag, different ids).
StoredEvents ==
    { [id |-> 1, kind |-> 1, pubkey |-> 1, d |-> 0],
      [id |-> 2, kind |-> 30000, pubkey |-> 1, d |-> 1],
      [id |-> 3, kind |-> 30000, pubkey |-> 1, d |-> 1] }

\* The ids of the stored events each relay holds. Only a copy from relay 1 may
\* carry the local mark.
Holds(r) == IF r = 1 THEN {1, 2} ELSE IF r = 2 THEN {1, 3} ELSE {2, 3}

\* The NDKEvent object a relay's message becomes. local marks a copy the
\* client authored or relayed itself; onRelays is its seen-on attribution.
Copy(e, r, local) ==
    [id |-> e.id, kind |-> e.kind, pubkey |-> e.pubkey, d |-> e.d,
     relay |-> r, local |-> local, onRelays |-> {r}, ndk |-> FALSE]

Null == [id |-> 0, kind |-> 0, pubkey |-> 0, d |-> 0,
         relay |-> 0, local |-> FALSE, onRelays |-> {}, ndk |-> FALSE]

NoRelaySet == [given |-> FALSE, relays |-> {}]
RelaySetOf(rs) == [given |-> TRUE, relays |-> rs]

\* An absent idOrFilter argument (undefined).
NoIdOrFilter ==
    [isString |-> FALSE, nip33 |-> FALSE, hints |-> {}, valid |-> FALSE,
     nullish |-> TRUE, authors |-> << >>]

\* The call made: its kind, the arguments the caller passed (idOrFilter, given
\* for the relaySet argument, closeOnEose for opts.closeOnEose, autoStart) and
\* relaySet, the relay set handed to subscribe.
NoCall == [kind |-> "none", autoStart |-> FALSE, relaySet |-> NoRelaySet,
           given |-> NoRelaySet, idOrFilter |-> NoIdOrFilter,
           closeOnEose |-> FALSE]
NoSub == [exists |-> FALSE, filters |-> << >>, closeOnEose |-> FALSE,
          relaySet |-> {}, started |-> FALSE, starts |-> 0, eosed |-> {},
          signals |-> 0, seen |-> {}, eoseCount |-> 0, closed |-> FALSE]
EmptyEvents == [k \in {} |-> Null]   \* new Map()
Pending == [state |-> "pending", event |-> Null, set |-> {}]

\* The filters a caller passes: each filter is its authors list.
FilterLists ==
    { << [authors |-> << >>] >>,
      << [authors |-> <<"a">>], [authors |-> << >>], [authors |-> <<"b">>] >> }

\* ------------------------------------------------------------------- Init
FetchInit ==
    /\ call = NoCall
    /\ sub = NoSub
    /\ handlers = {}
    /\ promise = Pending
    /\ events = EmptyEvents
    /\ delivered = {}
    /\ firstEvent = Null
    /\ temporary = {}
    /\ tracked = << >>

\* this.signer = opts.signer in the constructor: the setter starts the
\* resolution of a signer that is given.
SignerInit ==
    /\ signer = opts.signer
    /\ resolutions = IF opts.signer = None THEN << >>
                     ELSE << [signer |-> opts.signer, done |-> FALSE] >>
    /\ asserted = [calls |-> 0, signerRequired |-> 0, errors |-> 0]

Init ==
    /\ opts \in [autoConnectUserRelays : BOOLEAN,
                 autoFetchUserMutelist : BOOLEAN,
                 enableOutboxModel : BOOLEAN,
                 mutedIds : {EmptyMap},
                 signer : {None}]
    /\ activeUser = None
    /\ mutedIds = opts.mutedIds
    /\ poolRelays = [p \in Pools |->
                        IF p = "main" THEN {1}
                        ELSE IF opts.enableOutboxModel THEN OutboxUrls ELSE {}]
    /\ connected = [p \in Pools |-> {}]
    /\ listeners = [p \in Pools |-> << >>]
    /\ rounds = << >>
    /\ signalCount = 0
    /\ overlapped = FALSE
    /\ FetchInit
    /\ SignerInit

\* ---------------------------------------------------------------- actions
\* set activeUser(user): what the setter does to the session
AssignActiveUser(user) ==
    LET differentUser == activeUser # user
        id == Len(rounds) + 1
        r == NewRound(user, UserFunctions)
    IN
    /\ (user # None /\ differentUser) => Len(rounds) < MaxActivations
    /\ activeUser' = user
    /\ overlapped' = (overlapped \/ (user # None /\ differentUser
                                     /\ \E i \in 1..Len(rounds) : ~Finished(rounds[i])))
    /\ IF user # None /\ differentUser
       THEN IF PoolHasConnected(ChosenPool)
            THEN /\ rounds' = Append(rounds, RunUserFunctions(r))
                 /\ UNCHANGED <<listeners, mutedIds>>
            ELSE /\ rounds' = Append(rounds, r)
                 /\ listeners' = [listeners EXCEPT ![ChosenPool] = Append(@, id)]
                 /\ UNCHANGED mutedIds
       ELSE IF user = None
            THEN /\ mutedIds' = ResetMutedIds
                 /\ UNCHANGED <<rounds, listeners>>
            ELSE UNCHANGED <<rounds, listeners, mutedIds>>
    /\ UNCHANGED <<opts, poolRelays, connected, signalCount>>

\* ndk.activeUser = user, assigned by the application
SetActiveUser(user) ==
    /\ AssignActiveUser(user)
    /\ UNCHANGED <<fetchVars, signerVars>>

\* A relay of pool p reaches the connected state; the pool emits relay:connect,
\* which calls every once-listener in registration order and removes it.
RelayConnect(p, url) ==
    /\ url \in poolRelays[p] \ connected[p]
    /\ signalCount < MaxSignals
    /\ connected' = [connected EXCEPT ![p] = @ \cup {url}]
    /\ signalCount' = signalCount + 1
    /\ rounds' = [i \in 1..Len(rounds) |->
                    LET r == IF p = (IF opts.enableOutboxModel THEN "outbox" ELSE "main")
                             THEN [rounds[i] EXCEPT !.signals =
                                        IF rounds[i].deferred THEN @ + 1 ELSE @]
                             ELSE rounds[i]
                    IN IF \E k \in 1..Len(listeners[p]) : listeners[p][k] = i
                       THEN RunUserFunctions(r)
                       ELSE r]
    /\ listeners' = [listeners EXCEPT ![p] = << >>]
    /\ UNCHANGED <<overlapped, fetchVars, signerVars>>
    /\ UNCHANGED <<opts, activeUser, mutedIds, poolRelays>>

RelayDisconnect(p, url) ==
    /\ url \in connected[p]
    /\ connected' = [connected EXCEPT ![p] = @ \ {url}]
    /\ UNCHANGED <<overlapped, fetchVars, signerVars>>
    /\ UNCHANGED <<opts, activeUser, mutedIds, poolRelays, listeners, rounds,
                   signalCount>>

\* connectToUserRelays resumes after `await user.relayList()`.
ConnectToUserRelaysDone(i, relayList) ==
    /\ Running(rounds[i]) /\ rounds[i].fns[rounds[i].idx] = "connect"
    /\ poolRelays' = [poolRelays EXCEPT !["main"] =
                        IF ~relayList.found THEN @ ELSE @ \cup relayList.relays]
    /\ rounds' = [rounds EXCEPT ![i] = Resume(@)]
    /\ UNCHANGED <<overlapped, fetchVars, signerVars>>
    /\ UNCHANGED <<opts, activeUser, mutedIds, connected, listeners, signalCount>>

\* fetchUserMuteList resumes after `await this.fetchEvents(...)`.
FetchUserMuteListDone(i, muteLists) ==
    /\ Running(rounds[i]) /\ rounds[i].fns[rounds[i].idx] = "mute"
    /\ muteLists \in MuteFetchResults(Pubkey(rounds[i].user))
    /\ mutedIds' = MergeLists(mutedIds, muteLists, 1)
    /\ rounds' = [rounds EXCEPT ![i] =
                    Resume([@ EXCEPT !.fetched = MergeLists(EmptyMap, muteLists, 1)])]
    /\ UNCHANGED <<overlapped, fetchVars, signerVars>>
    /\ UNCHANGED <<opts, activeUser, poolRelays, connected, listeners, signalCount>>

Next ==
    \/ \E u \in UserObjs \cup {None} : SetActiveUser(u)
    \/ \E p \in Pools, url \in MainUrls \cup OutboxUrls : RelayConnect(p, url)
    \/ \E p \in Pools, url \in MainUrls \cup OutboxUrls : RelayDisconnect(p, url)
    \/ \E i \in 1..Len(rounds), rl \in RelayListResults :
            ConnectToUserRelaysDone(i, rl)
    \/ \E i \in 1..Len(rounds), ml \in AllMuteFetchResults :
            FetchUserMuteListDone(i, ml)

Spec == Init /\ [][Next]_vars

\* ------------------------------------------------- claims on the bootstrap
\* C1 (as claimed): assigning a user whose public key is the one the active
\* user already has starts no bootstrap and changes nothing but the stored
\* object, while assigning a user of another public key starts a bootstrap.
C1_SameIdentityIsNoOp ==
    [][\A u \in UserObjs :
          (SetActiveUser(u) /\ activeUser # None) =>
             IF Pubkey(u) = Pubkey(activeUser)
             THEN UNCHANGED <<rounds, listeners, mutedIds, poolRelays, connected>>
             ELSE Len(rounds') = Len(rounds) + 1]_vars

ExpectedLog ==
    (IF opts.autoConnectUserRelays
     THEN << <<"connect", "start">>, <<"connect", "end">> >> ELSE << >>)
    \o (IF opts.autoFetchUserMutelist
        THEN << <<"mute", "start">>, <<"mute", "end">> >> ELSE << >>)

\* C3: in every round the task calls and completions seen so far are a prefix
\* of: connect-to-user-relays called and completed (if autoConnectUserRelays),
\* then the mute-list fetch called and completed (if autoFetchUserMutelist);
\* a finished round has run exactly that.
C3_TasksSequential ==
    \A i \in 1..Len(rounds) :
        LET r == rounds[i] IN
        /\ Len(r.log) <= Len(ExpectedLog)
        /\ r.log = SubSeq(ExpectedLog, 1, Len(r.log))
        /\ (Finished(r) => r.log = ExpectedLog)

C3_Witness ==
    \E i \in 1..Len(rounds) :
        /\ Finished(rounds[i]) /\ Len(rounds[i].log) = 4
        /\ rounds[i].log[3] = <<"mute", "start">>

\* C4: every assignment of undefined leaves no active user and an empty
\* mutedIds, creates no round and registers no relay:connect listener.
C4_ClearResets ==
    [][SetActiveUser(None) =>
          /\ activeUser' = None
          /\ mutedIds' = EmptyMap
          /\ rounds' = rounds
          /\ listeners' = listeners]_vars

\* A mute list was fetched into mutedIds and the assignment of undefined has
\* emptied it since.
C4_Witness ==
    /\ activeUser = None /\ mutedIds = EmptyMap
    /\ \E i \in 1..Len(rounds) :
          Finished(rounds[i]) /\ rounds[i].fetched # EmptyMap

\* C5 (as claimed): when the rounds ran one after the other, the last round is
\* the active user's, of another identity than the round before it, and both
\* have fetched their mute lists, mutedIds is exactly the map built from the
\* last round's mute-list events.
C5_MutedIdsRebuilt ==
    LET n == Len(rounds) IN
    (/\ n >= 2 /\ ~overlapped
     /\ rounds[n].user = activeUser
     /\ Pubkey(rounds[n].user) # Pubkey(rounds[n - 1].user)
     /\ Finished(rounds[n]) /\ Finished(rounds[n - 1])
     /\ opts.autoFetchUserMutelist)
    => mutedIds = rounds[n].fetched


\* ------------------------------------------------ the subscription object
\* event.deduplicationKey(): kind, author and d tag for the parameterized-
\* replaceable kinds, the event id otherwise.
IsAddressable(kind) == kind >= 30000 /\ kind < 40000
DedupKey(e) ==
    IF IsAddressable(e.kind) THEN <<e.kind, e.pubkey, e.d, 0>>
    ELSE <<0, 0, 0, e.id>>

\* new NDKSubscription(ndk, filters, opts, relaySet): without a relay set the
\* subscription uses the pool's relays.
NewSubscription(filters, subOpts, relaySet) ==
    [exists |-> TRUE, filters |-> filters, closeOnEose |-> subOpts.closeOnEose,
     relaySet |-> IF relaySet.given THEN relaySet.relays ELSE poolRelays["main"],
     started |-> FALSE, starts |-> 0, eosed |-> {}, signals |-> 0, seen |-> {},
     eoseCount |-> 0, closed |-> FALSE]

\* The subscription emits eose, and closes if closeOnEose is set.
EmitEose(s) == [s EXCEPT !.eoseCount = @ + 1, !.closed = s.closeOnEose]

\* subscription.start(): registers with every relay of the set; with no relay
\* to wait for, end-of-stored-events is reached at once.
SubStart(s) ==
    LET t == [s EXCEPT !.started = TRUE, !.starts = @ + 1]
    IN IF t.relaySet = {} THEN EmitEose(t) ELSE t

SubRelayEoseCounting(s, r) ==
    LET t == [s EXCEPT !.eosed = @ \cup {r}, !.signals = @ + 1]
    IN IF t.signals >= Cardinality(t.relaySet) /\ s.eoseCount = 0
       THEN EmitEose(t) ELSE t
\* Relay r signals end-of-stored-events: eose is emitted when every relay of
\* the set has signalled, once.
SubRelayEose(s, r) ==
    LET t == [s EXCEPT !.eosed = @ \cup {r}, !.signals = @ + 1]
    IN IF t.eosed = t.relaySet /\ s.eoseCount = 0 THEN EmitEose(t) ELSE t

\* event for the first occurrence of a deduplication key, event:dup after it
SignalFor(s, e) == IF DedupKey(e) \in s.seen THEN "event:dup" ELSE "event"

\* dedupEvent(existing, incoming): the copy marked local if only one is, else
\* the one seen on more relays; the retained copy is attributed to the relays
\* of both.
DedupEvent(existing, incoming) ==
    LET winner ==
            IF existing.local /\ ~incoming.local THEN existing
            ELSE IF incoming.local /\ ~existing.local THEN incoming
            ELSE IF Cardinality(existing.onRelays) >= Cardinality(incoming.onRelays)
                 THEN existing
                 ELSE incoming
    IN [winner EXCEPT !.onRelays = existing.onRelays \cup incoming.onRelays]

KeepRelaySet(rs) == rs
\* correctRelaySet(relaySet, pool): only the relays the pool already tracks
CorrectRelaySet(rs) == rs \cap poolRelays["main"]

\* ------------------------------------------------------ the session's API
\* subscription.hasAuthorsFilter()
HasAuthorsFilter(filters) ==
    \E i \in 1..Len(filters) : Len(filters[i].authors) > 0

FirstAuthors(filters, i) == filters[1].authors
RECURSIVE FlatAuthors(_, _)
\* filters.filter(authors non-empty).map(authors).flat()
FlatAuthors(filters, i) ==
    IF i > Len(filters) THEN << >>
    ELSE filters[i].authors \o FlatAuthors(filters, i + 1)

SubscribeMarkOnStart(filters, subOpts, relaySet, autoStart) ==
    LET subscription == NewSubscription(filters, subOpts, relaySet) IN
    [sub |-> IF autoStart THEN SubStart(subscription) ELSE subscription,
     temporary |-> IF relaySet.given /\ autoStart
                   THEN temporary \cup relaySet.relays
                   ELSE temporary,
     tracked |-> IF opts.enableOutboxModel /\ HasAuthorsFilter(filters)
                 THEN Append(tracked, FlatAuthors(filters, 1))
                 ELSE tracked]
\* subscribe(filters, opts, relaySet, autoStart): the subscription it returns
\* and the pool and tracker bookkeeping it does.
Subscribe(filters, subOpts, relaySet, autoStart) ==
    LET subscription == NewSubscription(filters, subOpts, relaySet) IN
    [sub |-> IF autoStart THEN SubStart(subscription) ELSE subscription,
     temporary |-> IF relaySet.given THEN temporary \cup relaySet.relays
                   ELSE temporary,
     tracked |-> IF opts.enableOutboxModel /\ HasAuthorsFilter(filters)
                 THEN Append(tracked, FlatAuthors(filters, 1))
                 ELSE tracked]

\* resolve(value) of a promise: only the first call settles it
Resolve(p, event, set) ==
    IF p.state = "pending"
    THEN [state |-> "resolved", event |-> event, set |-> set]
    ELSE p

IgnoreEvent(p, event) == p
\* fetchEvent's "event" listener
FetchEventOnEvent(p, event) == Resolve(p, [event EXCEPT !.ndk = TRUE], {})

NeverResolve(p) == p
\* fetchEvent's "eose" listener
FetchEventOnEose(p) == Resolve(p, Null, {})

OnEventById(m, event) ==
    LET k == <<0, 0, 0, event.id>>
        e == IF k \in DOMAIN m THEN DedupEvent(m[k], event) ELSE event
    IN [x \in (DOMAIN m) \cup {k} |-> IF x = k THEN [e EXCEPT !.ndk = TRUE] ELSE m[x]]
OnEventOverwrite(m, event) ==
    LET k == DedupKey(event)
    IN [x \in (DOMAIN m) \cup {k} |->
            IF x = k THEN [event EXCEPT !.ndk = TRUE] ELSE m[x]]
\* fetchEvents' onEvent, the listener of "event" and of "event:dup"
OnEvent(m, event) ==
    LET dedupKey == DedupKey(event)
        e == IF dedupKey \in DOMAIN m THEN DedupEvent(m[dedupKey], event)
             ELSE event
    IN [x \in (DOMAIN m) \cup {dedupKey} |->
            IF x = dedupKey THEN [e EXCEPT !.ndk = TRUE] ELSE m[x]]

\* fetchEvents' "eose" listener: resolve(new Set(events.values()))
FetchEventsOnEose(p, m) == Resolve(p, Null, { m[k] : k \in DOMAIN m })

\* What the listeners registered at the time do with an eose the subscription
\* has just emitted.
AfterEose(kind, p, m, emitted, on) ==
    IF emitted /\ "eose" \in on
    THEN IF kind = "fetchEvent" THEN FetchEventOnEose(p)
         ELSE IF kind = "fetchEvents" THEN FetchEventsOnEose(p, m)
         ELSE p
    ELSE p


\* What a caller passes fetchEvent as idOrFilter: a filter object, or an id
\* string with the relay hints it embeds and whether it is a NIP-33 reference.
\* valid is whether the value is a well-formed, non-empty id or filter;
\* nullish whether it is undefined or null; authors the authors list of the
\* filter it is or denotes. The second value is the empty filter object {},
\* the third undefined, the fifth a malformed id string.
IdOrFilters ==
    { [isString |-> FALSE, nip33 |-> FALSE, hints |-> {}, valid |-> TRUE,
       nullish |-> FALSE, authors |-> <<"a">>],
      [isString |-> FALSE, nip33 |-> FALSE, hints |-> {}, valid |-> FALSE,
       nullish |-> FALSE, authors |-> << >>],
      NoIdOrFilter,
      [isString |-> TRUE, nip33 |-> FALSE, hints |-> {}, valid |-> TRUE,
       nullish |-> FALSE, authors |-> << >>],
      [isString |-> TRUE, nip33 |-> FALSE, hints |-> {}, valid |-> FALSE,
       nullish |-> FALSE, authors |-> << >>],
      [isString |-> TRUE, nip33 |-> FALSE, hints |-> {1, 3}, valid |-> TRUE,
       nullish |-> FALSE, authors |-> << >>],
      [isString |-> TRUE, nip33 |-> FALSE, hints |-> {3}, valid |-> TRUE,
       nullish |-> FALSE, authors |-> << >>],
      [isString |-> TRUE, nip33 |-> TRUE, hints |-> {3}, valid |-> TRUE,
       nullish |-> FALSE, authors |-> <<"a">>] }

\* filterFromId(id): the filter an id string denotes, nothing for a malformed
\* or empty one.
FilterFromId(id) == [nullish |-> ~id.valid, authors |-> id.authors]

CallerOpts(subOpts) == subOpts
\* { ...(opts || {}), closeOnEose: true }
FetchOpts(subOpts) == [subOpts EXCEPT !.closeOnEose = TRUE]

\* The relay sets a caller passes: none, the empty set, or all three relays.
RelaySetArgs == { NoRelaySet, RelaySetOf({}), RelaySetOf(Relays) }

\* subscribe(filters, opts, relaySet, autoStart) called by the application
CallSubscribe(filters, subOpts, relaySet, autoStart) ==
    LET r == Subscribe(filters, subOpts, relaySet, autoStart) IN
    /\ call.kind = "none"
    /\ call' = [kind |-> "subscribe", autoStart |-> autoStart,
                relaySet |-> relaySet, given |-> relaySet,
                idOrFilter |-> NoIdOrFilter, closeOnEose |-> subOpts.closeOnEose]
    /\ sub' = r.sub
    /\ temporary' = r.temporary
    /\ tracked' = r.tracked
    /\ UNCHANGED <<handlers, promise, events, delivered, firstEvent,
                   sessionVars, signerVars>>

\* fetchEvent(idOrFilter, opts, relaySet)
CallFetchEvent(idOrFilter, subOpts, relaySet) ==
    LET hinted == /\ ~relaySet.given /\ idOrFilter.isString
                  /\ ~idOrFilter.nip33 /\ idOrFilter.hints # {}
        relaySet2 == IF hinted THEN RelaySetOf(CorrectRelaySet(idOrFilter.hints))
                     ELSE relaySet
        filter == IF idOrFilter.isString THEN FilterFromId(idOrFilter)
                  ELSE [nullish |-> idOrFilter.nullish,
                        authors |-> idOrFilter.authors]
        r == Subscribe(<< [authors |-> filter.authors] >>,
                       FetchOpts(subOpts), relaySet2, FALSE)
        on == {"event", "eose"}
        s == SubStart(r.sub)
    IN
    /\ call.kind = "none"
    /\ call' = [kind |-> "fetchEvent", autoStart |-> FALSE,
                relaySet |-> relaySet2, given |-> relaySet,
                idOrFilter |-> idOrFilter, closeOnEose |-> subOpts.closeOnEose]
    /\ IF filter.nullish
       THEN \* throw new Error("Invalid filter"): the promise is rejected
            /\ promise' = [Pending EXCEPT !.state = "rejected"]
            /\ UNCHANGED <<sub, handlers, temporary, tracked>>
       ELSE /\ sub' = s
            /\ handlers' = on
            /\ temporary' = r.temporary
            /\ tracked' = r.tracked
            /\ promise' = AfterEose("fetchEvent", promise, events,
                                    s.eoseCount > 0, on)
    /\ UNCHANGED <<events, delivered, firstEvent,
                   sessionVars, signerVars>>

\* fetchEvents(filters, opts, relaySet)
CallFetchEvents(filters, subOpts, relaySet) ==
    LET r == Subscribe(filters, FetchOpts(subOpts), relaySet, FALSE)
        on == {"event", "event:dup", "eose"}
        s == SubStart(r.sub)
    IN
    /\ call.kind = "none"
    /\ call' = [kind |-> "fetchEvents", autoStart |-> FALSE,
                relaySet |-> relaySet, given |-> relaySet,
                idOrFilter |-> NoIdOrFilter, closeOnEose |-> subOpts.closeOnEose]
    /\ sub' = s
    /\ handlers' = on
    /\ temporary' = r.temporary
    /\ tracked' = r.tracked
    /\ promise' = AfterEose("fetchEvents", promise, events, s.eoseCount > 0, on)
    /\ UNCHANGED <<events, delivered, firstEvent,
                   sessionVars, signerVars>>

Live(s) == s.exists /\ s.started /\ ~s.closed

\* Relay r sends the subscription a stored event; the subscription emits it as
\* event or event:dup and the listeners of that signal run.
RelayEvent(r, e, local) ==
    LET copy == Copy(e, r, local)
        signal == SignalFor(sub, copy)
    IN
    /\ Live(sub) /\ r \in sub.relaySet
    /\ e.id \in Holds(r) /\ (local => r = 1)
    /\ Cardinality(delivered) < MaxDeliveries
    /\ ~\E c \in delivered : c.relay = r /\ c.id = e.id
    /\ sub' = [sub EXCEPT !.seen = @ \cup {DedupKey(copy)}]
    /\ delivered' = delivered \cup {copy}
    /\ firstEvent' = IF delivered = {} THEN copy ELSE firstEvent
    /\ promise' = IF call.kind = "fetchEvent" /\ signal \in handlers
                  THEN FetchEventOnEvent(promise, copy)
                  ELSE promise
    /\ events' = IF call.kind = "fetchEvents" /\ signal \in handlers
                 THEN OnEvent(events, copy)
                 ELSE events
    /\ UNCHANGED <<call, handlers, temporary, tracked, sessionVars,
                   signerVars>>

\* Relay r signals end-of-stored-events to the subscription.
RelayEose(r) ==
    LET s == SubRelayEose(sub, r) IN
    /\ Live(sub) /\ r \in sub.relaySet
    /\ r \in sub.eosed => sub.signals < Cardinality(sub.eosed) + MaxEoseRepeats
    /\ sub' = s
    /\ promise' = AfterEose(call.kind, promise, events,
                            s.eoseCount > sub.eoseCount, handlers)
    /\ UNCHANGED <<call, handlers, events, delivered, firstEvent, temporary,
                   tracked, sessionVars, signerVars>>

\* The session of the fetch specification: the main pool tracks relays 1 and 2.
InitFetch ==
    /\ opts \in [autoConnectUserRelays : {TRUE},
                 autoFetchUserMutelist : {TRUE},
                 enableOutboxModel : BOOLEAN,
                 mutedIds : {EmptyMap},
                 signer : {None}]
    /\ activeUser = None
    /\ mutedIds = opts.mutedIds
    /\ poolRelays = [p \in Pools |->
                        IF p = "main" THEN {1, 2}
                        ELSE IF opts.enableOutboxModel THEN OutboxUrls ELSE {}]
    /\ connected = [p \in Pools |-> {}]
    /\ listeners = [p \in Pools |-> << >>]
    /\ rounds = << >>
    /\ signalCount = 0
    /\ overlapped = FALSE
    /\ FetchInit
    /\ SignerInit

NextFetch ==
    \/ \E f \in FilterLists, c \in BOOLEAN, rs \in RelaySetArgs, a \in BOOLEAN :
            CallSubscribe(f, [closeOnEose |-> c], rs, a)
    \/ \E x \in IdOrFilters, c \in BOOLEAN, rs \in RelaySetArgs :
            CallFetchEvent(x, [closeOnEose |-> c], rs)
    \/ \E f \in FilterLists, c \in BOOLEAN, rs \in RelaySetArgs :
            CallFetchEvents(f, [closeOnEose |-> c], rs)
    \/ \E r \in Relays, e \in StoredEvents, local \in BOOLEAN :
            RelayEvent(r, e, local)
    \/ \E r \in Relays : RelayEose(r)

SpecFetch == InitFetch /\ [][NextFetch]_vars

\* Every relay of the set eventually signals end-of-stored-events.
SpecFetchFair ==
    SpecFetch /\ \A r \in Relays : WF_vars(RelayEose(r))


\* ----------------------------------------------------- claims on fetches
\* C6: the promise of fetchEvent is, at every moment, settled with the first
\* event its subscription has emitted if it has emitted one, with null if eose
\* was emitted and no event, and pending otherwise; later events and the eose
\* after an event leave it as it is.
C6_FetchEventResolvesOnce ==
    (call.kind = "fetchEvent" /\ sub.exists) =>
        promise = (IF delivered # {}
                   THEN [state |-> "resolved",
                         event |-> [firstEvent EXCEPT !.ndk = TRUE], set |-> {}]
                   ELSE IF sub.eoseCount > 0
                        THEN [state |-> "resolved", event |-> Null, set |-> {}]
                        ELSE Pending)

\* fetchEvent has resolved with its first event; a second event and the eose
\* have arrived since.
C6_Witness ==
    /\ call.kind = "fetchEvent" /\ promise.state = "resolved"
    /\ promise.event.id = firstEvent.id /\ promise.event.id # 0
    /\ Cardinality(delivered) >= 2 /\ sub.eoseCount = 1

\* C7: when every relay of the set eventually signals EOSE, a fetchEvent that
\* created its subscription eventually resolves; it resolves with null only if
\* no event was delivered and with an event only if one was.
C7_FetchEventTerminates ==
    /\ (call.kind = "fetchEvent" /\ sub.exists) ~> (promise.state = "resolved")
    /\ [](call.kind = "fetchEvent" /\ promise.state = "resolved"
            => (promise.event = Null <=> delivered = {}))

\* fetchEvent over a set of two relays or more resolved with null after all
\* of them signalled EOSE.
C7_Witness ==
    /\ call.kind = "fetchEvent" /\ promise.state = "resolved"
    /\ promise.event = Null /\ Cardinality(sub.relaySet) >= 2
    /\ sub.eosed = sub.relaySet

\* C8: fetchEvents is resolved exactly when its subscription has emitted
\* eose, and then with a set that holds one event for each deduplication key
\* among the events delivered (as event or event:dup), each a delivered copy,
\* and no second event for any key.
C8_FetchEventsOnePerKey ==
    (call.kind = "fetchEvents" /\ sub.exists) =>
        /\ (promise.state = "resolved") <=> (sub.eoseCount >= 1)
        /\ (promise.state = "resolved") =>
            LET keys == { DedupKey(c) : c \in delivered } IN
            /\ { DedupKey(x) : x \in promise.set } = keys
            /\ Cardinality(promise.set) = Cardinality(keys)
            /\ \A x \in promise.set :
                  \E c \in delivered : c.id = x.id /\ c.relay = x.relay

\* Three relays answered, two with the same event id and one with another:
\* the result holds two events.
C8_Witness ==
    /\ call.kind = "fetchEvents" /\ promise.state = "resolved"
    /\ { c.relay : c \in delivered } = Relays
    /\ Cardinality({ c.id : c \in delivered }) = 2
    /\ Cardinality(promise.set) = 2

\* C9: whatever the order of arrival, the event fetchEvents retains for a key
\* is one of the copies delivered for it, carries the local mark if and only
\* if one of those copies does, and is seen on the relays of all of them.
C9_MergeOrderIndependent ==
    call.kind = "fetchEvents" =>
        /\ DOMAIN events = { DedupKey(c) : c \in delivered }
        /\ \A k \in DOMAIN events :
            LET cs == { c \in delivered : DedupKey(c) = k } IN
            /\ events[k].onRelays = UNION { c.onRelays : c \in cs }
            /\ events[k].local <=> (\E c \in cs : c.local)
            /\ \E c \in cs : c.id = events[k].id /\ c.relay = events[k].relay

\* Two copies of one key arrived, the unmarked one first: the marked one is
\* retained, seen on both relays.
C9_Witness ==
    /\ call.kind = "fetchEvents"
    /\ \E k \in DOMAIN events :
        /\ DedupKey(firstEvent) = k /\ ~firstEvent.local
        /\ events[k].local /\ Cardinality(events[k].onRelays) = 2

\* C10: the subscription has emitted eose once if it is started and every
\* relay of its set has signalled EOSE, and never otherwise; a relay's
\* repeated signal counts once.
C10_EoseOnceAfterAll ==
    sub.exists =>
        /\ sub.eosed \subseteq sub.relaySet
        /\ sub.eoseCount =
              (IF sub.started /\ sub.eosed = sub.relaySet THEN 1 ELSE 0)

\* Two relays, two EOSE signals, both from the same relay: no eose yet.
C10_Witness ==
    /\ sub.exists /\ Cardinality(sub.relaySet) = 2 /\ sub.signals = 2
    /\ Cardinality(sub.eosed) = 1 /\ sub.eoseCount = 0

\* C19 (as claimed): while no user is active mutedIds is empty, whatever round
\* of an earlier user is still deferred or has its mute-list fetch in flight.
C19_MutedIdsStaysEmpty ==
    activeUser = None => mutedIds = EmptyMap

\* ------------------------------------------------------- failing tasks
\* The task round i awaits fails (user.relayList() or the mute-list fetch
\* rejects, or the task throws after it).
TaskFailed(i) ==
    /\ Running(rounds[i])
    /\ rounds' = [rounds EXCEPT ![i] = Fail(@, signalCount)]
    /\ UNCHANGED <<opts, activeUser, mutedIds, poolRelays, connected, listeners,
                   signalCount, overlapped, fetchVars, signerVars>>

\* The bootstrap with failing tasks, and a fetchEvents call made at any moment
\* of it.
NextFailure ==
    \/ \E u \in UserObjs : SetActiveUser(u)
    \/ \E p \in Pools, url \in MainUrls \cup OutboxUrls : RelayConnect(p, url)
    \/ \E i \in 1..Len(rounds), rl \in RelayListResults :
            ConnectToUserRelaysDone(i, rl)
    \/ \E i \in 1..Len(rounds), ml \in AllMuteFetchResults :
            FetchUserMuteListDone(i, ml)
    \/ \E i \in 1..Len(rounds) : TaskFailed(i)
    \/ CallFetchEvents(<< [authors |-> <<"a">>] >>, [closeOnEose |-> FALSE],
                       NoRelaySet)

\* The session of the failure specification: both bootstrap tasks are enabled
\* and there is no outbox pool.
InitFailure ==
    /\ opts \in [autoConnectUserRelays : {TRUE},
                 autoFetchUserMutelist : {TRUE},
                 enableOutboxModel : {FALSE},
                 mutedIds : {EmptyMap},
                 signer : {None}]
    /\ activeUser = None
    /\ mutedIds = opts.mutedIds
    /\ poolRelays = [p \in Pools |->
                        IF p = "main" THEN {1}
                        ELSE IF opts.enableOutboxModel THEN OutboxUrls ELSE {}]
    /\ connected = [p \in Pools |-> {}]
    /\ listeners = [p \in Pools |-> << >>]
    /\ rounds = << >>
    /\ signalCount = 0
    /\ overlapped = FALSE
    /\ FetchInit
    /\ SignerInit

SpecFailure == InitFailure /\ [][NextFailure]_vars

\* C17: a round whose task failed was started once, however many
\* relay:connect signals followed, has no listener left, and its log ends with
\* the failure: after a failed connect-to-user-relays no mute-list fetch was
\* called. The failure step leaves the active user and mutedIds as they are;
\* with a failed round, subscribe, fetchEvent and fetchEvents can be called,
\* and the fetchEvents call made has created and started its subscription.
C17_FailureNotRetried ==
    /\ [](\A i \in 1..Len(rounds) :
            LET r == rounds[i] IN
            r.failed =>
               /\ r.starts = 1
               /\ r.log[Len(r.log)] = <<r.fns[r.idx], "fail">>
               /\ r.fns[r.idx] = "connect" =>
                     r.log = << <<"connect", "start">>, <<"connect", "fail">> >>
               /\ \A p \in Pools : \A k \in 1..Len(listeners[p]) :
                     listeners[p][k] # i)
    /\ [][\A i \in 1..Len(rounds) :
            TaskFailed(i) =>
               /\ activeUser' = activeUser /\ mutedIds' = mutedIds
               /\ listeners' = listeners]_vars
    /\ []((call.kind = "none" /\ \E i \in 1..Len(rounds) : rounds[i].failed) =>
            /\ ENABLED CallSubscribe(<< [authors |-> <<"a">>] >>,
                                     [closeOnEose |-> FALSE], NoRelaySet, TRUE)
            /\ ENABLED CallFetchEvents(<< [authors |-> <<"a">>] >>,
                                       [closeOnEose |-> FALSE], NoRelaySet)
            /\ ENABLED CallFetchEvent(NoIdOrFilter, [closeOnEose |-> FALSE],
                                      NoRelaySet))
    /\ [](call.kind # "none" =>
            (sub.exists /\ sub.started /\ sub.relaySet # {}))

\* The connect task of the active user's round failed, a relay:connect signal
\* came after the failure, and fetchEvents was called and has subscribed.
C17_Witness ==
    /\ call.kind = "fetchEvents" /\ sub.started
    /\ \E i \in 1..Len(rounds) :
          /\ rounds[i].failed /\ rounds[i].fns[rounds[i].idx] = "connect"
          /\ rounds[i].deferred /\ signalCount > rounds[i].failedAt
          /\ rounds[i].starts = 1 /\ activeUser = rounds[i].user

\* ------------------------------------------------------------ the signer
MaxSignerSets == 3        \* signers assigned in one behaviour, opts.signer included
MaxAsserts == 2           \* assertSigner calls in one behaviour

\* The signers a caller may assign, and the NDKUser object signer.user()
\* resolves with: the two signers control different identities.
Signers == {1, 2}
SignerUser(s) == IF s = 1 THEN 1 ELSE 3

SetSignerOnly(newSigner) ==
    /\ newSigner # None => Len(resolutions) < MaxSignerSets
    /\ signer' = newSigner
    /\ UNCHANGED <<resolutions, asserted, sessionVars, fetchVars>>
\* set signer(newSigner): stores it and calls newSigner?.user()
SetSigner(newSigner) ==
    /\ newSigner # None => Len(resolutions) < MaxSignerSets
    /\ signer' = newSigner
    /\ resolutions' = IF newSigner # None
                      THEN Append(resolutions,
                                  [signer |-> newSigner, done |-> FALSE])
                      ELSE resolutions
    /\ UNCHANGED <<asserted, sessionVars, fetchVars>>

\* The promise of the k-th user() call resolves: the then-callback assigns
\* the resolved user to activeUser.
UserResolved(k) ==
    /\ ~resolutions[k].done
    /\ resolutions' = [resolutions EXCEPT ![k].done = TRUE]
    /\ AssignActiveUser(SignerUser(resolutions[k].signer))
    /\ UNCHANGED <<signer, asserted, fetchVars>>

NeverMissing == FALSE
\* !this.signer
SignerMissing == signer = None

\* assertSigner()
AssertSigner ==
    /\ asserted.calls < MaxAsserts
    /\ asserted' = IF SignerMissing
                   THEN [calls |-> asserted.calls + 1,
                         signerRequired |-> asserted.signerRequired + 1,
                         errors |-> asserted.errors + 1]
                   ELSE [asserted EXCEPT !.calls = @ + 1]
    /\ UNCHANGED <<signer, resolutions, sessionVars, fetchVars>>

\* The session of the signer specification: both bootstrap tasks, no outbox
\* pool, constructed with or without a signer.
InitSigner ==
    /\ opts \in [autoConnectUserRelays : {TRUE},
                 autoFetchUserMutelist : {TRUE},
                 enableOutboxModel : {FALSE},
                 mutedIds : {EmptyMap},
                 signer : Signers \cup {None}]
    /\ activeUser = None
    /\ mutedIds = opts.mutedIds
    /\ poolRelays = [p \in Pools |-> IF p = "main" THEN {1} ELSE {}]
    /\ connected = [p \in Pools |-> {}]
    /\ listeners = [p \in Pools |-> << >>]
    /\ rounds = << >>
    /\ signalCount = 0
    /\ overlapped = FALSE
    /\ FetchInit
    /\ SignerInit

NextSigner ==
    \/ \E s \in Signers \cup {None} : SetSigner(s)
    \/ \E k \in 1..Len(resolutions) : UserResolved(k)
    \/ \E p \in Pools, url \in MainUrls : RelayConnect(p, url)
    \/ \E i \in 1..Len(rounds), rl \in RelayListResults :
            ConnectToUserRelaysDone(i, rl)
    \/ \E i \in 1..Len(rounds), ml \in AllMuteFetchResults :
            FetchUserMuteListDone(i, ml)

SpecSigner == InitSigner /\ [][NextSigner]_vars

\* assertSigner reads the signer only: its calls interleaved with the
\* assignments of the signer and the resolutions.
NextAssert ==
    \/ \E s \in Signers \cup {None} : SetSigner(s)
    \/ \E k \in 1..Len(resolutions) : UserResolved(k)
    \/ AssertSigner

SpecAssert == InitSigner /\ [][NextAssert]_vars

\* -------------------------------------------------- claims on the signer
\* C15: every assertSigner call made while no signer is configured emits
\* signerRequired once and fails; every call made while a signer is configured
\* emits nothing and does not fail; no call changes the signer, the active
\* user or mutedIds.
C15_AssertSigner ==
    [][AssertSigner =>
          /\ IF signer = None
             THEN /\ asserted'.signerRequired = asserted.signerRequired + 1
                  /\ asserted'.errors = asserted.errors + 1
             ELSE /\ asserted'.signerRequired = asserted.signerRequired
                  /\ asserted'.errors = asserted.errors
          /\ UNCHANGED <<signer, activeUser, mutedIds>>]_vars

\* Two calls, one with a signer configured and one without: one signal, one
\* error.
C15_Witness ==
    /\ asserted.calls = 2 /\ asserted.signerRequired = 1 /\ asserted.errors = 1

\* C16: assigning a signer starts one resolution, for that signer, and leaves
\* the active user and the bootstrap rounds as they are; assigning undefined
\* starts none; when a resolution completes its user is the active user and
\* a bootstrap round exists for it, created in that step unless that user
\* object was the active user already.
C16_SignerResolution ==
    [][/\ \A s \in Signers \cup {None} :
            SetSigner(s) =>
               /\ signer' = s
               /\ activeUser' = activeUser /\ rounds' = rounds
               /\ resolutions' = IF s = None THEN resolutions
                                 ELSE Append(resolutions,
                                             [signer |-> s, done |-> FALSE])
       /\ \A k \in 1..Len(resolutions) :
            UserResolved(k) =>
               LET u == SignerUser(resolutions[k].signer) IN
               /\ activeUser' = u
               /\ Len(rounds') = Len(rounds) + (IF activeUser = u THEN 0 ELSE 1)
               /\ \E i \in 1..Len(rounds') : rounds'[i].user = u
               /\ \A j \in 1..Len(resolutions) :
                     resolutions'[j].done = (resolutions[j].done \/ j = k)]_vars

\* The resolution of the assigned signer has completed, its user is active
\* and its bootstrap round has run.
C16_Witness ==
    /\ signer = 2 /\ Len(resolutions) = 1 /\ resolutions[1].done
    /\ activeUser = SignerUser(2)
    /\ Len(rounds) = 1 /\ Finished(rounds[1])

\* C18 (as claimed): when all resolutions have completed, two or more, the
\* active user is the user of the signer assigned last.
C18_LatestSignerWins ==
    (/\ signer # None /\ Len(resolutions) >= 2
     /\ \A k \in 1..Len(resolutions) : resolutions[k].done)
    => activeUser = SignerUser(signer)

\* ------------------------------------------- claims on subscribe's bookkeeping
\* C11: once subscribe has created a subscription, started or not, the relays
\* registered as temporary in the main pool are exactly the relays of the
\* relay set it was given, and none if it was given no relay set.
C11_TemporaryRelays ==
    /\ sub.exists =>
          temporary = (IF call.relaySet.given THEN call.relaySet.relays ELSE {})
    /\ ~sub.exists => temporary = {}

\* subscribe was called with the three relays and autoStart false: all three
\* are temporary while the subscription is not started.
C11_Witness ==
    /\ call.kind = "subscribe" /\ ~call.autoStart /\ ~sub.started
    /\ call.given = RelaySetOf(Relays) /\ temporary = Relays

\* C12: the tracker has been called once, with exactly the authors of all the
\* filters, if the outbox pool exists and some filter of the subscription has
\* authors, and not at all otherwise; the subscription's relay set is the one
\* given to subscribe (the pool's relays if none was), report or not.
C12_TrackerReport ==
    /\ ~sub.exists => tracked = << >>
    /\ sub.exists =>
          LET authors == UNION { { sub.filters[j].authors[i] :
                                     i \in 1..Len(sub.filters[j].authors) } :
                                 j \in 1..Len(sub.filters) }
          IN /\ IF opts.enableOutboxModel /\ authors # {}
                THEN /\ Len(tracked) = 1
                     /\ { tracked[1][i] : i \in 1..Len(tracked[1]) } = authors
                ELSE tracked = << >>
             /\ sub.relaySet = (IF call.relaySet.given THEN call.relaySet.relays
                                ELSE poolRelays["main"])

\* With an outbox pool, a subscription of three filters, two of them with
\* authors, was reported once with both authors.
C12_Witness ==
    /\ opts.enableOutboxModel /\ call.kind = "subscribe"
    /\ Len(sub.filters) = 3 /\ Len(tracked) = 1 /\ Len(tracked[1]) = 2

C14_InvalidFilterFails ==
    (call.kind = "fetchEvent" /\ ~call.idOrFilter.valid) =>
        /\ promise.state = "rejected"
        /\ ~sub.exists /\ temporary = {} /\ tracked = << >>

\* C20: the subscription of a fetchEvent or fetchEvents has closeOnEose set
\* whatever the caller's option, was started once, with the event and eose
\* listeners (and event:dup for fetchEvents) registered, and no signal was
\* missed: an emitted eose has closed it and resolved the promise, a delivered
\* event has resolved fetchEvent's promise or is in fetchEvents' map.
C20_HandlersBeforeStart ==
    (call.kind \in {"fetchEvent", "fetchEvents"} /\ sub.exists) =>
        /\ sub.closeOnEose /\ ~call.autoStart
        /\ sub.started /\ sub.starts = 1
        /\ handlers = (IF call.kind = "fetchEvent" THEN {"event", "eose"}
                       ELSE {"event", "event:dup", "eose"})
        /\ sub.eoseCount > 0 => (sub.closed /\ promise.state = "resolved")
        /\ delivered # {} =>
              IF call.kind = "fetchEvent" THEN promise.state = "resolved"
              ELSE DOMAIN events = { DedupKey(c) : c \in delivered }

\* The caller asked for closeOnEose false and gave the empty relay set: the
\* eose emitted in start resolved fetchEvents and closed the subscription.
C20_Witness ==
    /\ call.kind = "fetchEvents" /\ ~call.closeOnEose
    /\ sub.relaySet = {} /\ sub.closed /\ sub.eosed = {}
    /\ promise.state = "resolved" /\ promise.set = {}

====
